---------------------------- MODULE Spec2Model ----------------------------
(***************************************************************************)
(* Model of the Todoist voice-task plugin (src/api/index.py, src/api/db.py).*)
(*                                                                         *)
(* Texts are sequences of one-character strings, so that sanitising,       *)
(* lower-casing, stripping and prefix removal are computed, not assumed.   *)
(* One request is handled at a time; a handler is split at its awaits on   *)
(* create_todoist_task, whose attempts and sleeps are steps of their own.  *)
(***************************************************************************)
EXTENDS Integers, Sequences, FiniteSets, TLC

\* ------------------------------------------------------------------ bounds

\* Longest text made of SanitizeChars that sanitize_text is called with, and
\* the largest small max_length it is called with.
MaxTextLen == 3
MaxCap == 14

\* Largest retries argument tried when create_todoist_task is called directly.
MaxRetries == 3
\* Longest action_items list of a webhook payload.
MaxItems == 2
\* Longest transcript_segments list of a webhook payload.
MaxSegs == 1

\* ------------------------------------------------------- program constants

\* retries: int = 3, the default used by the webhook handler.
DefaultRetries == 3
\* retries=1, passed by the setup endpoint.
SetupRetries == 1
\* max_length: int = 500 of sanitize_text.
DefaultMaxLength == 500

\* Python's None, where a string is expected and where a dict or object is.
None == "None"
Null == [py |-> "None"]

\* Statuses the retry test treats as transient: {429, 502, 503}.
RetryableStatuses == {429, 502, 503}

\* Statuses the remote task API answers with in the model.
Statuses == {200, 401, 429, 500, 502, 503}

\* An attempt's outcome: an HTTP response with a status, or an
\* aiohttp.ClientError raised before any response.
Response(status) == [kind |-> "response", status |-> status]
ClientError == [kind |-> "ClientError"]
NoOutcome == [kind |-> "none"]
Outcomes == {Response(s) : s \in Statuses} \cup {ClientError}

\* Credentials, the user identifiers the stores are asked about, and the
\* user identifier requests carry.
Keys == {"k1", "k2"}
Uids == {"u1", "u2"}
ReqUids == {"u1"}

\* ------------------------------------------------------------------- texts

UpperLetters == <<"A", "B", "C", "D", "E", "F", "G", "H", "I", "J", "K", "L", "M", "N", "O", "P", "Q", "R", "S", "T", "U", "V", "W", "X", "Y", "Z">>
LowerLetters == <<"a", "b", "c", "d", "e", "f", "g", "h", "i", "j", "k", "l", "m", "n", "o", "p", "q", "r", "s", "t", "u", "v", "w", "x", "y", "z">>

Min(a, b) == IF a <= b THEN a ELSE b
Max(a, b) == IF a >= b THEN a ELSE b

\* str.lower() on one character.
LowerChar(c) ==
    IF \E i \in 1..26 : UpperLetters[i] = c
    THEN LowerLetters[CHOOSE i \in 1..26 : UpperLetters[i] = c]
    ELSE c

\* str.lower()
Lower(s) == [i \in 1..Len(s) |-> LowerChar(s[i])]

\* Characters str.strip() removes.
IsSpace(c) == c \in {" ", "\t", "\n", "\r"}

\* str.strip()
Strip(s) ==
    IF \A i \in 1..Len(s) : IsSpace(s[i])
    THEN << >>
    ELSE LET first == CHOOSE i \in 1..Len(s) :
                          /\ ~IsSpace(s[i])
                          /\ \A j \in 1..(i-1) : IsSpace(s[j])
             last  == CHOOSE i \in 1..Len(s) :
                          /\ ~IsSpace(s[i])
                          /\ \A j \in (i+1)..Len(s) : IsSpace(s[j])
         IN  SubSeq(s, first, last)

\* sub in s (Python's substring test)
Contains(s, sub) ==
    \E i \in 0..(Len(s) - Len(sub)) : SubSeq(s, i + 1, i + Len(sub)) = sub

\* s.startswith(prefix)
StartsWith(s, prefix) ==
    /\ Len(prefix) <= Len(s)
    /\ SubSeq(s, 1, Len(prefix)) = prefix

\* s[n:]
Drop(s, n) == SubSeq(s, Min(n, Len(s)) + 1, Len(s))

\* s[:n], Python's slice: a negative n counts from the end.
Take(s, n) ==
    IF n >= 0 THEN SubSeq(s, 1, Min(n, Len(s)))
    ELSE SubSeq(s, 1, Max(0, Len(s) + n))

\* s.replace(c, r) for a one-character c and a replacement text r: every
\* occurrence of c, left to right, gives way to r. The text is taken in
\* halves, so that a text of some hundred characters is replaced in few
\* nested steps.
RECURSIVE Replace(_, _, _)
Replace(s, c, r) ==
    IF Len(s) = 0 THEN << >>
    ELSE IF Len(s) = 1 THEN (IF s[1] = c THEN r ELSE s)
    ELSE LET half == Len(s) \div 2
         IN  Replace(SubSeq(s, 1, half), c, r) \o Replace(SubSeq(s, half + 1, Len(s)), c, r)

\* Mutant: the text is cut to max_length before "<" and ">" are replaced.
sanitize_text_TruncatesFirst(text, max_length) ==
    Replace(Replace(Take(text, max_length), "<", <<"&", "l", "t", ";">>),
            ">", <<"&", "g", "t", ";">>)

\* sanitize_text(text, max_length)
sanitize_text(text, max_length) ==
    LET sanitized == Replace(Replace(text, "<", <<"&", "l", "t", ";">>),
                             ">", <<"&", "g", "t", ";">>)
    IN  Take(sanitized, max_length)

task_indicators ==
    << <<"r", "e", "m", "e", "m", "b", "e", "r", " ", "t", "o">>,
       <<"d", "o", "n", "'", "t", " ", "f", "o", "r", "g", "e", "t", " ", "t", "o">>,
       <<"n", "e", "e", "d", " ", "t", "o">>,
       <<"h", "a", "v", "e", " ", "t", "o">>,
       <<"s", "h", "o", "u", "l", "d">>,
       <<"m", "u", "s", "t">>,
       <<"g", "o", "i", "n", "g", " ", "t", "o">>,
       <<"w", "i", "l", "l">>,
       <<"l", "e", "t", "s">>,
       <<"l", "e", "t", "'", "s">>,
       <<"t", "o", "d", "o">>,
       <<"t", "o", " ", "d", "o">>,
       <<"t", "a", "s", "k">>,
       <<"r", "e", "m", "i", "n", "d", " ", "m", "e", " ", "t", "o">> >>

\* The inner loop of extract_tasks_from_transcript: indicators k.. are tried
\* in order, each against the task as the earlier ones left it.
RECURSIVE RemovePrefixes(_, _)
RemovePrefixes(task, k) ==
    IF k > Len(task_indicators) THEN task
    ELSE IF StartsWith(Lower(task), task_indicators[k])
         THEN RemovePrefixes(Strip(Drop(task, Len(task_indicators[k]))), k + 1)
         ELSE RemovePrefixes(task, k + 1)

\* extract_tasks_from_transcript(transcript_segments)
RECURSIVE extract_tasks_from_transcript(_)
extract_tasks_from_transcript(transcript_segments) ==
    IF transcript_segments = << >> THEN << >>
    ELSE LET segment == Head(transcript_segments)
             text    == Lower(segment.text)
             rest    == extract_tasks_from_transcript(Tail(transcript_segments))
         IN  IF \E k \in 1..Len(task_indicators) : Contains(text, task_indicators[k])
             THEN LET task == RemovePrefixes(Strip(segment.text), 1)
                  IN  IF task # << >> THEN <<task>> \o rest ELSE rest
             ELSE rest

\* ------------------------------------------------------------------ inputs

BuyMilk == <<"B", "u", "y", " ", "m", "i", "l", "k">>
ShouldBold == <<"s", "h", "o", "u", "l", "d", " ", "<", "b", ">">>
RememberMilk == <<"R", "e", "m", "e", "m", "b", "e", "r", " ", "t", "o", " ", "b", "u", "y", " ", "m", "i", "l", "k">>
Hello == <<"h", "e", "l", "l", "o">>
MustOnly == <<" ", "m", "u", "s", "t", " ">>
TestTask == <<"T", "e", "s", "t", " ", "t", "a", "s", "k", " ", "-", " ", "p", "l", "e", "a", "s", "e", " ", "i", "g", "n", "o", "r", "e">>

\* Descriptions of action items, and texts of transcript segments.
Descs == {BuyMilk}
SegTexts == {RememberMilk, Hello, MustOnly, ShouldBold}

\* Sequences over S of length at most n.
SeqUpTo(S, n) == UNION {[1..k -> S] : k \in 0..n}

\* Raw action items of a payload: pydantic's ActionItem keeps description and
\* completed and drops every other field, such as deleted.
RawItems == [description : Descs, completed : BOOLEAN, deleted : BOOLEAN]
Segments == [text : SegTexts]

\* Request bodies: not JSON at all, JSON of another shape, or a payload.
NoPayload == [action_items |-> << >>, transcript_segments |-> << >>]
Bodies ==
    {[kind |-> k, json |-> NoPayload] : k \in {"notjson", "badshape"}}
    \cup {[kind |-> "payload",
           json |-> [action_items |-> a, transcript_segments |-> t]] :
            a \in SeqUpTo(RawItems, MaxItems), t \in SeqUpTo(Segments, MaxSegs)}

\* A uid that cannot be part of an environment variable name.
BadUid == "a=b"

\* ------------------------------------------------------------------- state

VARIABLES
    \* os.environ: LOCAL_TESTING, TODOIST_API_KEY and the todoist_key_<uid> entries
    local_testing, environ_api_key, kv,
    \* the todoist_keys table of todoist_keys.db
    db,
    \* the request handler: its position, request, locals and response
    hpc, req, api_key, memory_data, idx, transcript_tasks, tasks, resp,
    \* the create_todoist_task calls the handler has started, in order
    log,
    \* the running create_todoist_task call: its position, its arguments with
    \* the X-Request-Id of its headers, its loop variable, and what its
    \* attempts did: POSTs made, sleeps taken, X-Request-Id values sent
    cpc, call, attempt, posts, sleeps, sent, outcome, all_retryable, remote_body, result,
    \* direct calls of the store functions: the get just made (Null after a
    \* put), and per store and user the key of the last successful put
    last_get, last_put,
    \* a direct call of sanitize_text: its arguments and what it returned
    sanitized,
    \* the response of the last GET /health or GET /setup-done
    probe

envVars == <<local_testing, environ_api_key, kv>>
handlerVars == <<hpc, req, api_key, memory_data, idx, transcript_tasks, tasks, resp, log>>
callVars == <<cpc, call, attempt, posts, sleeps, sent, outcome, all_retryable, remote_body, result>>
storeObs == <<last_get, last_put>>
vars == <<envVars, db, handlerVars, callVars, storeObs, sanitized, probe>>

\* ------------------------------------------------------ create_todoist_task

\* raise HTTPException(status_code=..., detail=...)
HTTPException(status_code, detail) ==
    [exc |-> "HTTPException", status_code |-> status_code, detail |-> detail]

\* The task descriptor the remote API answers a 200 with: the created task,
\* echoing the content it was sent.
Descriptor(content) == [id |-> "123", content |-> content]

\* Mutant: the last attempt is taken to be number retries, not retries - 1.
GivesUp_LastOffByOne(status, a, retries) ==
    status \notin RetryableStatuses \/ a = retries

\* Mutant: every status but 200 is retried until the last attempt.
GivesUp_RetryAnyStatus(status, a, retries) ==
    a = retries - 1

\* Mutant: the test for the last attempt is missing from line 138.
GivesUp_OnlyTerminal(status, a, retries) ==
    status \notin RetryableStatuses

\* Line 138: the response ends the call with an error.
GivesUp(status, a, retries) ==
    status \notin RetryableStatuses \/ a = retries - 1

\* Mutant: a transport failure is never retried.
LastAttempt_Always(a, retries) == TRUE

\* Line 144: the attempt that failed in transport was the last one.
LastAttempt(a, retries) == a = retries - 1

\* Mutant: every error of the remote is raised as a 500.
RaisedStatus_Always500(status) == 500

\* Line 140: status_code=response.status
RaisedStatus(status) == status

\* Line 145: the status of the error raised for a transport failure.
TransportErrorStatus == 500

\* Line 146: asyncio.sleep(2 ** attempt)
BackoffDelay(a) == 2 ^ a

\* The X-Request-Id values of the calls on record: the running call and the
\* calls of the handler's log. No call has the value 0.
UsedTokens == {call.request_id} \cup {log[i].request_id : i \in 1..Len(log)}

\* Line 114, str(uuid.uuid4()): a value no call on record has. The values are
\* compared for equality only, so the least unused number stands for it.
uuid4 ==
    CHOOSE t \in 1..(Cardinality(UsedTokens) + 1) :
        /\ t \notin UsedTokens
        /\ \A u \in 1..(t - 1) : u \in UsedTokens

\* Mutant: the headers are built anew, with a new token, for every attempt.
AttemptToken_PerAttempt(request_id, a) == request_id + a

\* Line 131: the X-Request-Id that attempt a sends is the one of the headers
\* built before the loop.
AttemptToken(request_id, a) == request_id

\* The call's arguments and its loop variable before the first iteration.
NoCall == [api_key |-> None, content |-> << >>, retries |-> 0, request_id |-> 0]

CallIdle ==
    /\ cpc' = "idle"
    /\ call' = NoCall
    /\ attempt' = 0
    /\ posts' = 0
    /\ sleeps' = << >>
    /\ sent' = << >>
    /\ outcome' = NoOutcome
    /\ all_retryable' = TRUE
    /\ remote_body' = Null
    /\ result' = Null

\* Mutant: the attempt counter is shared by the calls and never set back.
StartCall_SharedCounter(key, content, retries) ==
    /\ cpc' = IF retries > 0 THEN "post" ELSE "returned"
    /\ call' = [api_key |-> key, content |-> content, retries |-> retries,
                request_id |-> uuid4]
    /\ attempt' = attempt
    /\ posts' = 0
    /\ sleeps' = << >>
    /\ sent' = << >>
    /\ outcome' = NoOutcome
    /\ all_retryable' = TRUE
    /\ remote_body' = Null
    /\ result' = Null

\* create_todoist_task(key, content, retries) is entered: range(retries) is
\* empty for retries <= 0, and the function then returns None.
StartCall(key, content, retries) ==
    /\ cpc' = IF retries > 0 THEN "post" ELSE "returned"
    /\ call' = [api_key |-> key, content |-> content, retries |-> retries,
                request_id |-> uuid4]
    /\ attempt' = 0
    /\ posts' = 0
    /\ sleeps' = << >>
    /\ sent' = << >>
    /\ outcome' = NoOutcome
    /\ all_retryable' = TRUE
    /\ remote_body' = Null
    /\ result' = Null

\* Mutant: only the content of the parsed body is handed back.
ReturnValue_ContentOnly(parsed) == [content |-> parsed.content]

\* What the function returns for a 200: await response.json()
ReturnValue(parsed) == parsed

\* One iteration of the loop up to its sleep: the POST and its outcome o.
Post(o) ==
    /\ cpc = "post"
    /\ posts' = posts + 1
    /\ sent' = Append(sent, AttemptToken(call.request_id, attempt))
    /\ outcome' = o
    /\ all_retryable' = (all_retryable /\ o.kind = "response"
                                        /\ o.status \in RetryableStatuses)
    /\ remote_body' = IF o = Response(200) THEN Descriptor(call.content) ELSE Null
    /\ IF o = ClientError
       THEN IF LastAttempt(attempt, call.retries)
            THEN /\ cpc' = "raised"
                 /\ result' = HTTPException(TransportErrorStatus, "ClientError")
            ELSE /\ cpc' = "sleep"
                 /\ result' = Null
       ELSE IF o.status = 200
       THEN /\ cpc' = "returned"
            /\ result' = ReturnValue(Descriptor(call.content))
       ELSE IF GivesUp(o.status, attempt, call.retries)
            THEN /\ cpc' = "raised"
                 /\ result' = HTTPException(RaisedStatus(o.status), "Todoist API error")
            ELSE /\ cpc' = "sleep"
                 /\ result' = Null
    /\ UNCHANGED <<call, attempt, sleeps>>
    /\ UNCHANGED <<envVars, db, handlerVars, storeObs, sanitized, probe>>

\* The sleep that ends an iteration, and the loop's step to the next one; when
\* range(retries) is used up the function falls off its end and returns None.
Sleep ==
    /\ cpc = "sleep"
    /\ sleeps' = Append(sleeps, BackoffDelay(attempt))
    /\ attempt' = attempt + 1
    /\ cpc' = IF attempt + 1 < call.retries THEN "post" ELSE "returned"
    /\ UNCHANGED <<call, posts, sent, outcome, all_retryable, remote_body, result>>
    /\ UNCHANGED <<envVars, db, handlerVars, storeObs, sanitized, probe>>

\* ------------------------------------------------- direct calls of the client

HandlerIdle ==
    /\ req' = Null
    /\ api_key' = None
    /\ memory_data' = NoPayload
    /\ idx' = 0
    /\ transcript_tasks' = << >>
    /\ tasks' = << >>
    /\ resp' = Null
    /\ log' = << >>

\* create_todoist_task called on its own with retries = n.
ClientCall(key, content, n) ==
    /\ hpc = "direct"
    /\ cpc = "idle"
    /\ StartCall(key, content, n)
    /\ UNCHANGED <<envVars, db, handlerVars, storeObs, sanitized, probe>>

\* The caller takes the call's result or exception.
ClientFinish ==
    /\ hpc = "direct"
    /\ cpc \in {"returned", "raised"}
    /\ CallIdle
    /\ UNCHANGED <<envVars, db, handlerVars, storeObs, sanitized, probe>>

NoStoreObs ==
    /\ last_get = Null
    /\ last_put = [s \in {"kv", "db"} |-> [u \in Uids |-> None]]

InitClient ==
    /\ local_testing \in BOOLEAN
    /\ environ_api_key = None
    /\ kv = [u \in Uids |-> None]
    /\ db = [u \in Uids |-> None]
    /\ hpc = "direct"
    /\ req = Null
    /\ api_key = None
    /\ memory_data = NoPayload
    /\ idx = 0
    /\ transcript_tasks = << >>
    /\ tasks = << >>
    /\ resp = Null
    /\ log = << >>
    /\ cpc = "idle"
    /\ call = NoCall
    /\ attempt = 0
    /\ posts = 0
    /\ sleeps = << >>
    /\ sent = << >>
    /\ outcome = NoOutcome
    /\ all_retryable = TRUE
    /\ remote_body = Null
    /\ result = Null
    /\ NoStoreObs
    /\ sanitized = Null
    /\ probe = Null

NextClient ==
    \/ \E key \in Keys, content \in {BuyMilk}, n \in 0..MaxRetries :
          ClientCall(key, content, n)
    \/ \E o \in Outcomes : Post(o)
    \/ Sleep
    \/ ClientFinish

SpecClient == InitClient /\ [][NextClient]_vars

\* A POST ends with a response or with an error of the transport, and a
\* sleep ends: a call that can take its next step takes it.
SpecClientFair ==
    /\ InitClient
    /\ [][NextClient]_vars
    /\ WF_vars(\E o \in Outcomes : Post(o))
    /\ WF_vars(Sleep)

\* ------------------------------------------------------- the key-value store

\* Names os.environ accepts: putenv rejects a name holding "=".
EnvNameOk(user_id) == user_id \in Uids

\* OmiClient.KVStore.get under the key todoist_key_<user_id>: os.getenv when
\* LOCAL_TESTING is set, None otherwise.
KVStore_get(testing, environ, user_id) ==
    IF testing
    THEN IF user_id \in DOMAIN environ THEN environ[user_id] ELSE None
    ELSE None

\* OmiClient.KVStore.set: os.environ[key] = value when LOCAL_TESTING is set,
\* nothing otherwise; the environment it leaves.
KVStore_set(testing, environ, user_id, value) ==
    IF testing THEN [environ EXCEPT ![user_id] = value] ELSE environ

\* KVStore.set raises (and store_todoist_key turns it into a 500).
KVStore_set_raises(testing, user_id) == testing /\ ~EnvNameOk(user_id)

\* get_todoist_key(user_id)
get_todoist_key(user_id) == KVStore_get(local_testing, kv, user_id)

\* -------------------------------------------------------------- the webhook

\* MemoryPayload.parse_obj: the fields the models declare.
ParseItem(raw) == [description |-> raw.description, completed |-> raw.completed]
ParseObj(json) ==
    [action_items |-> [i \in 1..Len(json.action_items) |-> ParseItem(json.action_items[i])],
     transcript_segments |-> json.transcript_segments]

\* Mutant: the completed test of line 219 is left out.
Eligible_SubmitsAll(action_item) == TRUE

\* Mutant: the "not" of line 219 is left out.
Eligible_Inverted(action_item) == action_item.completed

\* Line 219: the action item is submitted.
Eligible(action_item) == ~action_item.completed

\* The first index from i on of an item the loop of line 218 submits, or
\* Len(items) + 1.
NextItem(items, i) ==
    IF \E j \in i..Len(items) : Eligible(items[j])
    THEN CHOOSE j \in i..Len(items) :
             /\ Eligible(items[j])
             /\ \A k \in i..(j-1) : ~Eligible(items[k])
    ELSE Len(items) + 1

\* Mutant: the contents are compared as they are, without lower().
IsDuplicate_CaseSensitive(created, sanitized_text) ==
    \E k \in 1..Len(created) : created[k].content = sanitized_text

\* Line 238: some task created so far has this content, ignoring case.
IsDuplicate(created, sanitized_text) ==
    \E k \in 1..Len(created) : Lower(created[k].content) = Lower(sanitized_text)

\* The first index from i on of a transcript task the loop of line 235
\* submits, or Len(ttasks) + 1.
NextTranscript(ttasks, i, created) ==
    IF \E j \in i..Len(ttasks) :
           ~IsDuplicate(created, sanitize_text(ttasks[j], DefaultMaxLength))
    THEN CHOOSE j \in i..Len(ttasks) :
             /\ ~IsDuplicate(created, sanitize_text(ttasks[j], DefaultMaxLength))
             /\ \A k \in i..(j-1) :
                    IsDuplicate(created, sanitize_text(ttasks[k], DefaultMaxLength))
    ELSE Len(ttasks) + 1

\* A call the handler starts, as the log keeps it.
LogEntry(src, i, key, content) ==
    [src |-> src, idx |-> i, api_key |-> key, content |-> content,
     request_id |-> uuid4, ok |-> "pending"]

\* The last call of the log has returned (ok) or raised.
Settle(lg, ok) ==
    [lg EXCEPT ![Len(lg)] = [@ EXCEPT !.ok = IF ok THEN "yes" ELSE "no"]]

\* The response of a raised HTTPException.
ErrorResponse(status_code, detail) ==
    [status_code |-> status_code, detail |-> detail, content |-> Null]

\* Mutant: tasks_created counts the calls made, not the tasks created.
SuccessResponse_CountsCalls(created) ==
    [status_code |-> 200, detail |-> None,
     content |-> [status |-> "success", tasks_created |-> Len(log), tasks |-> created]]

\* The response of the dict returned at line 250.
SuccessResponse(created) ==
    [status_code |-> 200, detail |-> None,
     content |-> [status |-> "success", tasks_created |-> Len(created), tasks |-> created]]

\* The key the webhook handler works with (line 191).
WebhookKey(user_id) == environ_api_key

\* The handler runs on from position (phase, i) with the tasks created so far
\* to its next await of create_todoist_task, or to its return.
WebhookContinue(md, key, phase, i, created, ttasks, lg) ==
    LET j == IF phase = "items" THEN NextItem(md.action_items, i)
             ELSE Len(md.action_items) + 1
    IN  IF j <= Len(md.action_items)
        THEN /\ hpc' = "items"
             /\ idx' = j
             /\ transcript_tasks' = << >>
             /\ StartCall(key, sanitize_text(md.action_items[j].description, DefaultMaxLength),
                          DefaultRetries)
             /\ log' = Append(lg, LogEntry("item", j, key,
                           sanitize_text(md.action_items[j].description, DefaultMaxLength)))
             /\ resp' = Null
        ELSE LET tt == IF phase = "items"
                       THEN extract_tasks_from_transcript(md.transcript_segments)
                       ELSE ttasks
                 k  == NextTranscript(tt, IF phase = "items" THEN 1 ELSE i, created)
             IN  IF k <= Len(tt)
                 THEN /\ hpc' = "transcript"
                      /\ idx' = k
                      /\ transcript_tasks' = tt
                      /\ StartCall(key, sanitize_text(tt[k], DefaultMaxLength), DefaultRetries)
                      /\ log' = Append(lg, LogEntry("transcript", k, key,
                                    sanitize_text(tt[k], DefaultMaxLength)))
                      /\ resp' = Null
                 ELSE /\ hpc' = "done"
                      /\ idx' = k
                      /\ transcript_tasks' = tt
                      /\ CallIdle
                      /\ log' = lg
                      /\ resp' = SuccessResponse(created)

\* The handler ends with an HTTPException before any call.
WebhookReject(status_code, detail) ==
    /\ hpc' = "done"
    /\ resp' = ErrorResponse(status_code, detail)
    /\ api_key' = None
    /\ memory_data' = NoPayload
    /\ idx' = 0
    /\ transcript_tasks' = << >>
    /\ tasks' = << >>
    /\ log' = << >>
    /\ CallIdle

\* Mutant: the test of line 187 is left out.
MissingUid_Never(user_id) == FALSE

\* Line 187: not user_id
MissingUid(user_id) == user_id = None

\* POST /webhook?uid=<uid> with body b: handle_memory_creation up to its first
\* await of create_todoist_task, or to its response.
WebhookRequest(uid, b) ==
    /\ hpc = "idle"
    /\ req' = [endpoint |-> "webhook", uid |-> uid, api_key |-> None, body |-> b]
    /\ IF MissingUid(uid)
       THEN WebhookReject(400, "Missing user ID")
       ELSE IF WebhookKey(uid) = None
       THEN WebhookReject(500, "Todoist API key not configured in environment")
       ELSE IF b.kind = "notjson"
       THEN WebhookReject(500, "JSONDecodeError")
       ELSE IF b.kind = "badshape"
       THEN WebhookReject(400, "Invalid memory payload")
       ELSE /\ api_key' = WebhookKey(uid)
            /\ memory_data' = ParseObj(b.json)
            /\ tasks' = << >>
            /\ WebhookContinue(ParseObj(b.json), WebhookKey(uid), "items", 1,
                               << >>, << >>, << >>)
    /\ UNCHANGED <<envVars, db, storeObs, sanitized, probe>>

\* The awaited create_todoist_task has returned or raised: append or skip,
\* and on to the next call or to the response.
WebhookResume ==
    /\ hpc \in {"items", "transcript"}
    /\ cpc \in {"returned", "raised"}
    /\ LET created == IF cpc = "returned" THEN Append(tasks, result) ELSE tasks
       IN  /\ tasks' = created
           /\ WebhookContinue(memory_data, api_key, hpc, idx + 1, created,
                              transcript_tasks, Settle(log, cpc = "returned"))
    /\ UNCHANGED <<req, api_key, memory_data>>
    /\ UNCHANGED <<envVars, db, storeObs, sanitized, probe>>

\* ---------------------------------------------------------------- the setup

TemplateResponse(template, error) ==
    [status_code |-> 200, detail |-> None,
     content |-> [template |-> template, error |-> error]]

\* POST /setup with the form fields uid and api_key: setup_todoist up to its
\* await of the validation call.
SetupRequest(uid, key) ==
    /\ hpc = "idle"
    /\ req' = [endpoint |-> "setup", uid |-> uid, api_key |-> key, body |-> Null]
    /\ hpc' = "setup"
    /\ StartCall(key, TestTask, SetupRetries)
    /\ log' = <<LogEntry("setup", 1, key, TestTask)>>
    /\ UNCHANGED <<api_key, memory_data, idx, transcript_tasks, tasks, resp>>
    /\ UNCHANGED <<envVars, db, storeObs, sanitized, probe>>

\* Mutant: the key is stored whether or not the validation call returned.
SetupStore_Unvalidated(validated, testing, environ, uid, key) ==
    IF ~KVStore_set_raises(testing, uid)
    THEN KVStore_set(testing, environ, uid, key)
    ELSE environ

\* The environment setup_todoist leaves once the validation call is over.
SetupStore(validated, testing, environ, uid, key) ==
    IF validated /\ ~KVStore_set_raises(testing, uid)
    THEN KVStore_set(testing, environ, uid, key)
    ELSE environ

\* The validation call has returned or raised: store and report.
SetupResume ==
    /\ hpc = "setup"
    /\ cpc \in {"returned", "raised"}
    /\ kv' = SetupStore(cpc = "returned", local_testing, kv, req.uid, req.api_key)
    /\ resp' = IF cpc = "raised"
               THEN TemplateResponse("setup.html", result.detail)
               ELSE IF KVStore_set_raises(local_testing, req.uid)
               THEN TemplateResponse("setup.html", "Failed to store API key")
               ELSE TemplateResponse("setup_success.html", None)
    /\ hpc' = "done"
    /\ log' = Settle(log, cpc = "returned")
    /\ CallIdle
    /\ UNCHANGED <<req, api_key, memory_data, idx, transcript_tasks, tasks>>
    /\ UNCHANGED <<local_testing, environ_api_key, db, storeObs, sanitized, probe>>

\* The response is sent and the handler's frame is gone.
Close ==
    /\ hpc = "done"
    /\ hpc' = "idle"
    /\ HandlerIdle
    /\ UNCHANGED <<envVars, db, callVars, storeObs, sanitized, probe>>

Init ==
    /\ local_testing \in BOOLEAN
    /\ environ_api_key \in {None, "k1"}
    /\ kv = [u \in Uids |-> None]
    /\ db = [u \in Uids |-> None]
    /\ hpc = "idle"
    /\ req = Null
    /\ api_key = None
    /\ memory_data = NoPayload
    /\ idx = 0
    /\ transcript_tasks = << >>
    /\ tasks = << >>
    /\ resp = Null
    /\ log = << >>
    /\ cpc = "idle"
    /\ call = NoCall
    /\ attempt = 0
    /\ posts = 0
    /\ sleeps = << >>
    /\ sent = << >>
    /\ outcome = NoOutcome
    /\ all_retryable = TRUE
    /\ remote_body = Null
    /\ result = Null
    /\ NoStoreObs
    /\ sanitized = Null
    /\ probe = Null

\* A request arrives while no handler runs.
Webhook ==
    /\ hpc = "idle"
    /\ \E uid \in ReqUids \cup {None}, b \in Bodies : WebhookRequest(uid, b)

Setup ==
    /\ hpc = "idle"
    /\ \E uid \in ReqUids \cup {BadUid}, key \in Keys : SetupRequest(uid, key)

Next ==
    \/ Webhook
    \/ Setup
    \/ \E o \in Outcomes : Post(o)
    \/ Sleep
    \/ WebhookResume
    \/ SetupResume
    \/ Close

Spec == Init /\ [][Next]_vars

\* --------------------------------------------- direct calls of the stores

\* store_api_key of db.py: INSERT OR REPLACE on the primary key uid; a NULL
\* api_key breaks the NOT NULL constraint and the function returns False.
DbStoreOk(uid, key) == key # None
DbStore(table, uid, key) ==
    IF DbStoreOk(uid, key) THEN [table EXCEPT ![uid] = key] ELSE table

\* get_api_key of db.py: the api_key of the row of uid, or None.
DbGet(table, uid) == table[uid]

\* store_api_key(uid, key)
store_api_key(uid, key) ==
    /\ hpc = "store"
    /\ db' = DbStore(db, uid, key)
    /\ last_put' = IF DbStoreOk(uid, key)
                   THEN [last_put EXCEPT !["db"][uid] = key]
                   ELSE last_put
    /\ last_get' = Null
    /\ UNCHANGED <<envVars, handlerVars, callVars, sanitized, probe>>

\* get_api_key(uid)
get_api_key(uid) ==
    /\ hpc = "store"
    /\ last_get' = [store |-> "db", uid |-> uid, value |-> DbGet(db, uid)]
    /\ UNCHANGED <<envVars, db, handlerVars, callVars, last_put, sanitized, probe>>

\* store_todoist_key(user_id, key): True, or a 500 when KVStore.set raises.
store_todoist_key(user_id, key) ==
    /\ hpc = "store"
    /\ kv' = IF KVStore_set_raises(local_testing, user_id) THEN kv
             ELSE KVStore_set(local_testing, kv, user_id, key)
    /\ last_put' = IF KVStore_set_raises(local_testing, user_id) THEN last_put
                   ELSE [last_put EXCEPT !["kv"][user_id] = key]
    /\ last_get' = Null
    /\ UNCHANGED <<local_testing, environ_api_key, db, handlerVars, callVars, sanitized, probe>>

\* get_todoist_key(user_id), called on its own
GetTodoistKey(user_id) ==
    /\ hpc = "store"
    /\ last_get' = [store |-> "kv", uid |-> user_id, value |-> get_todoist_key(user_id)]
    /\ UNCHANGED <<envVars, db, handlerVars, callVars, last_put, sanitized, probe>>

InitStore ==
    /\ local_testing \in BOOLEAN
    /\ environ_api_key = None
    /\ kv = [u \in Uids |-> None]
    /\ db = [u \in Uids |-> None]
    /\ hpc = "store"
    /\ req = Null
    /\ api_key = None
    /\ memory_data = NoPayload
    /\ idx = 0
    /\ transcript_tasks = << >>
    /\ tasks = << >>
    /\ resp = Null
    /\ log = << >>
    /\ cpc = "idle"
    /\ call = NoCall
    /\ attempt = 0
    /\ posts = 0
    /\ sleeps = << >>
    /\ sent = << >>
    /\ outcome = NoOutcome
    /\ all_retryable = TRUE
    /\ remote_body = Null
    /\ result = Null
    /\ NoStoreObs
    /\ sanitized = Null
    /\ probe = Null

NextStore ==
    \/ \E uid \in Uids, key \in Keys \cup {None} : store_api_key(uid, key)
    \/ \E uid \in Uids : get_api_key(uid)
    \/ \E uid \in Uids \cup {BadUid}, key \in Keys : store_todoist_key(uid, key)
    \/ \E uid \in Uids \cup {BadUid} : GetTodoistKey(uid)

SpecStore == InitStore /\ [][NextStore]_vars

\* ------------------------------------------- direct calls of sanitize_text

Script == <<"<", "s", "c", "r", "i", "p", "t", ">">>

\* A text one character longer than the default max_length, with a "<" that
\* the cut falls into once it is replaced.
LongText ==
    [i \in 1..(DefaultMaxLength + 1) |-> IF i = DefaultMaxLength - 1 THEN "<" ELSE "a"]

SanitizeChars == {"<", ">", "a"}
SanitizeTexts == SeqUpTo(SanitizeChars, MaxTextLen) \cup {Script, LongText}
SanitizeCaps == (0..MaxCap) \cup {DefaultMaxLength}

\* sanitize_text(text, max_length) is called on its own and returns.
SanitizeCall(text, max_length) ==
    /\ hpc = "idle"
    /\ hpc' = "sanitize"
    /\ sanitized' = [text |-> text, max_length |-> max_length,
                     returns |-> sanitize_text(text, max_length)]
    /\ UNCHANGED <<req, api_key, memory_data, idx, transcript_tasks, tasks, resp, log>>
    /\ UNCHANGED <<envVars, db, callVars, storeObs, probe>>

\* The caller has taken the value.
SanitizeDone ==
    /\ hpc = "sanitize"
    /\ hpc' = "idle"
    /\ sanitized' = Null
    /\ UNCHANGED <<req, api_key, memory_data, idx, transcript_tasks, tasks, resp, log>>
    /\ UNCHANGED <<envVars, db, callVars, storeObs, probe>>

Sanitize ==
    \E text \in SanitizeTexts, max_length \in SanitizeCaps : SanitizeCall(text, max_length)

\* The application, and sanitize_text called on its own between requests.
NextSanitize == Next \/ Sanitize \/ SanitizeDone

SpecSanitize == Init /\ [][NextSanitize]_vars

\* ------------------------------------------------- the status endpoints

\* Mutant: the flag tells whether some user's key is stored.
SetupCompleted_FromStore == \E u \in Uids : kv[u] # None

\* Line 308: the flag of GET /setup-done.
SetupCompleted == TRUE

\* GET /health: health_check answers while any handler is at an await.
health_check ==
    /\ probe' = [endpoint |-> "health", status_code |-> 200,
                 content |-> [status |-> "ok"]]
    /\ UNCHANGED <<envVars, db, handlerVars, callVars, storeObs, sanitized>>

\* GET /setup-done: setup_complete
setup_complete ==
    /\ probe' = [endpoint |-> "setup-done", status_code |-> 200,
                 content |-> [is_setup_completed |-> SetupCompleted]]
    /\ UNCHANGED <<envVars, db, handlerVars, callVars, storeObs, sanitized>>

\* The response is sent.
ProbeDone ==
    /\ probe # Null
    /\ probe' = Null
    /\ UNCHANGED <<envVars, db, handlerVars, callVars, storeObs, sanitized>>

\* The application with its status endpoints.
NextProbe == Next \/ health_check \/ setup_complete \/ ProbeDone

SpecProbe == Init /\ [][NextProbe]_vars

\* ------------------------------------------------------------------ claims

\* C1: a call with retries = N > 1 whose every attempt so far received a
\* status in {429, 502, 503} has slept 1, 2, 4, ... after its attempts, one
\* sleep after each attempt but the Nth, and it ends only by raising an error
\* after exactly N POSTs and N - 1 sleeps.
C1_RetryableExhaustsAttempts ==
    (call.retries > 1 /\ all_retryable) =>
        /\ \A i \in 1..Len(sleeps) :
               sleeps[i] = IF i = 1 THEN 1 ELSE 2 * sleeps[i - 1]
        /\ cpc = "post" => Len(sleeps) = posts
        /\ cpc = "sleep" => Len(sleeps) = posts - 1
        /\ cpc \in {"returned", "raised"} =>
               /\ cpc = "raised"
               /\ posts = call.retries
               /\ Len(sleeps) = call.retries - 1
               /\ result.exc = "HTTPException"
               /\ result.status_code \in {429, 502, 503}

C1_Witness ==
    /\ cpc = "raised"
    /\ all_retryable
    /\ call.retries = 3
    /\ posts = 3
    /\ sleeps = <<1, 2>>
    /\ outcome = Response(503)

\* C2: an attempt that received a status outside {200, 429, 502, 503} is the
\* last of its call: the call has raised an error with that status, the
\* attempt was followed by no sleep and no POST, and on the first attempt
\* exactly one POST was made.
C2_TerminalStatusEndsCall ==
    (outcome.kind = "response" /\ outcome.status \notin {200, 429, 502, 503}) =>
        /\ cpc = "raised"
        /\ result.exc = "HTTPException"
        /\ result.status_code = outcome.status
        /\ posts = attempt + 1
        /\ Len(sleeps) = attempt
        /\ attempt = 0 => (posts = 1 /\ sleeps = << >>)

C2_Witness ==
    /\ outcome = Response(401)
    /\ call.retries = 3
    /\ attempt = 0
    /\ posts = 1
    /\ cpc = "raised"

\* C3: an attempt that received 200 ends its call: the call has returned the
\* parsed body as the remote sent it, no sleep and no POST followed the
\* attempt, and with 200 on the first attempt exactly one POST was made.
C3_SuccessEndsCall ==
    outcome = Response(200) =>
        /\ cpc = "returned"
        /\ result = remote_body
        /\ result = [id |-> "123", content |-> call.content]
        /\ posts = attempt + 1
        /\ Len(sleeps) = attempt
        /\ attempt = 0 => (posts = 1 /\ sleeps = << >>)

C3_Witness ==
    /\ outcome = Response(200)
    /\ call.retries = 3
    /\ attempt = 0
    /\ posts = 1
    /\ cpc = "returned"
    /\ result.content = BuyMilk

\* A webhook request is being handled, or has just been answered.
InWebhook ==
    /\ hpc \in {"items", "transcript", "done"}
    /\ req.endpoint = "webhook"

\* The action items of the request as they were sent.
SentItems == req.body.json.action_items

\* The indices of the action items a call was started for.
SubmittedItems == {log[i].idx : i \in {k \in 1..Len(log) : log[k].src = "item"}}

\* The calls of the log that returned, in order.
RECURSIVE Returned(_)
Returned(lg) ==
    IF lg = << >> THEN << >>
    ELSE IF Head(lg).ok = "yes" THEN <<Head(lg)>> \o Returned(Tail(lg))
    ELSE Returned(Tail(lg))

\* C4 (as claimed): every task-creation call of a webhook request for a user
\* u with a stored credential carries the credential the Credential Store
\* holds for u.
C4_CallsCarryStoredCredential ==
    (InWebhook /\ req.uid # None /\ get_todoist_key(req.uid) # None) =>
        \A i \in 1..Len(log) : log[i].api_key = get_todoist_key(req.uid)

\* C5 (as claimed): a webhook request for a user without a stored credential
\* makes no task-creation call and is answered 400.
C5_NoCredentialIs400 ==
    (InWebhook /\ req.uid # None /\ get_todoist_key(req.uid) = None) =>
        /\ log = << >>
        /\ hpc = "done" => resp.status_code = 400

NoTranscriptTask ==
    extract_tasks_from_transcript(req.body.json.transcript_segments) = << >>

C8_FailuresSkipped ==
    ( /\ InWebhook
      /\ req.uid # None
      /\ environ_api_key # None
      /\ req.body.kind = "payload" ) =>
        LET ret == Returned(log)
        IN  /\ Len(tasks) = Len(ret)
            /\ \A k \in 1..Len(ret) :
                   tasks[k] = [id |-> "123", content |-> ret[k].content]
            /\ hpc \in {"transcript", "done"} =>
                   SubmittedItems = {j \in 1..Len(SentItems) : ~SentItems[j].completed}
            /\ hpc = "done" =>
                   /\ resp.status_code = 200
                   /\ resp.content.status = "success"
                   /\ resp.content.tasks = tasks
                   /\ resp.content.tasks_created = Len(resp.content.tasks)
                   /\ resp.content.tasks_created = Len(ret)
                   /\ \A i \in 1..Len(log) : log[i].ok \in {"yes", "no"}

C8_Witness ==
    /\ InWebhook
    /\ hpc = "done"
    /\ Len(log) = 2
    /\ log[1].src = "item" /\ log[1].ok = "no"
    /\ log[2].src = "item" /\ log[2].ok = "yes"
    /\ resp.status_code = 200
    /\ resp.content.tasks_created = 1

\* The states of a setup request: its validation call is one POST without a
\* sleep, and its response follows the call's result.
C9_SetupState ==
    /\ hpc = "setup" =>
           /\ call.retries = 1
           /\ sleeps = << >>
           /\ posts = IF cpc = "post" THEN 0 ELSE 1
           /\ cpc \in {"post", "returned", "raised"}
    /\ (hpc = "done" /\ req.endpoint = "setup") =>
           /\ Len(log) = 1
           /\ log[1].api_key = req.api_key
           /\ log[1].ok = "no" =>
                  /\ resp.content.template = "setup.html"
                  /\ resp.content.error # None
           /\ resp.content.template = "setup_success.html" =>
                  /\ log[1].ok = "yes"
                  /\ local_testing => kv[req.uid] = req.api_key
           /\ (log[1].ok = "yes" /\ req.uid \in Uids) =>
                  resp.content.template = "setup_success.html"

\* The steps that change the store, and the step that takes a failed
\* validation.
C9_SetupStep ==
    /\ kv' # kv =>
           /\ hpc = "setup"
           /\ cpc = "returned"
           /\ posts = 1
           /\ sleeps = << >>
           /\ kv' = [kv EXCEPT ![req.uid] = req.api_key]
           /\ resp'.content.template = "setup_success.html"
    /\ (hpc = "setup" /\ cpc = "raised") => kv' = kv

C10_GetReturnsLastPut ==
    (hpc = "store" /\ last_get # Null) =>
        last_get.value = IF last_get.uid \in Uids
                         THEN last_put[last_get.store][last_get.uid]
                         ELSE None

\* The answer to a webhook request without uid, and what its handling left
\* untouched.
C11_MissingUidState ==
    (InWebhook /\ req.uid = None) =>
        /\ hpc = "done"
        /\ resp.status_code = 400
        /\ resp.detail = "Missing user ID"
        /\ log = << >>
        /\ cpc = "idle"
        /\ posts = 0

\* The step that handles a webhook request without uid.
C11_MissingUidStep ==
    (hpc = "idle" /\ hpc' = "done" /\ req'.endpoint = "webhook" /\ req'.uid = None) =>
        /\ kv' = kv
        /\ db' = db
        /\ environ_api_key' = environ_api_key
        /\ local_testing' = local_testing
        /\ cpc' = "idle"
        /\ posts' = 0

\* C11: a webhook request without the uid query parameter is answered 400
\* "Missing user ID" whatever its body and whatever keys are configured or
\* stored; handling it starts no task-creation call and leaves the
\* environment, the key-value store and the database as they were.
C11_MissingUidIs400 == []C11_MissingUidState /\ [][C11_MissingUidStep]_vars

C11_Witness ==
    /\ InWebhook
    /\ req.uid = None
    /\ req.body.kind = "payload"
    /\ Len(SentItems) = 1
    /\ ~SentItems[1].completed
    /\ environ_api_key = "k1"
    /\ kv["u1"] = "k2"
    /\ resp.status_code = 400

\* C12 (as claimed): a webhook request with a uid, TODOIST_API_KEY set and a
\* key stored for the user, whose body is not JSON or is JSON of another
\* shape, is answered 400 and makes no task-creation call.
C12_MalformedIs400 ==
    ( /\ InWebhook
      /\ req.uid # None
      /\ environ_api_key # None
      /\ get_todoist_key(req.uid) # None
      /\ req.body.kind \in {"notjson", "badshape"} ) =>
        /\ hpc = "done"
        /\ resp.status_code = 400
        /\ log = << >>

\* The number of tasks created before call i of the log was started.
CreatedBefore(i) == Len(Returned(SubSeq(log, 1, i - 1)))

\* The transcript tasks of the request, and the indices of those a call was
\* started for.
SentTranscriptTasks == extract_tasks_from_transcript(req.body.json.transcript_segments)
SubmittedTranscript == {log[i].idx : i \in {k \in 1..Len(log) : log[k].src = "transcript"}}

\* C13: with TODOIST_API_KEY set, a payload whose one action item is an
\* uncompleted "Buy milk" and whose transcript yields nothing but that text in
\* some case, and a remote that accepts the item's call, the handler makes that
\* one call and answers "success" with tasks_created = 1. In every request a
\* call is started for a transcript task only if its sanitised text differs,
\* ignoring case, from the content of every task created before; a transcript
\* task left without a call equals, ignoring case, the content of a created task.
C13_TranscriptDeduplicated ==
    ( /\ InWebhook
      /\ req.uid # None
      /\ environ_api_key # None
      /\ req.body.kind = "payload" ) =>
        /\ \A i \in 1..Len(log) : log[i].src = "transcript" =>
               /\ log[i].content = sanitize_text(SentTranscriptTasks[log[i].idx], DefaultMaxLength)
               /\ \A m \in 1..CreatedBefore(i) :
                      Lower(tasks[m].content) # Lower(log[i].content)
        /\ hpc = "done" =>
               \A j \in 1..Len(SentTranscriptTasks) : j \notin SubmittedTranscript =>
                   \E m \in 1..Len(tasks) :
                       Lower(tasks[m].content)
                           = Lower(sanitize_text(SentTranscriptTasks[j], DefaultMaxLength))
        /\ ( /\ Len(SentItems) = 1
             /\ SentItems[1].description = BuyMilk
             /\ ~SentItems[1].completed
             /\ \A j \in 1..Len(SentTranscriptTasks) :
                    Lower(SentTranscriptTasks[j]) = Lower(BuyMilk)
             /\ log[1].ok # "no" ) =>
               /\ Len(log) = 1
               /\ log[1].src = "item"
               /\ log[1].content = BuyMilk
               /\ hpc = "done" =>
                      /\ resp.status_code = 200
                      /\ resp.content.status = "success"
                      /\ resp.content.tasks_created = 1
                      /\ resp.content.tasks = <<[id |-> "123", content |-> BuyMilk]>>

C13_Witness ==
    /\ InWebhook
    /\ hpc = "done"
    /\ environ_api_key # None
    /\ Len(SentItems) = 1
    /\ ~SentItems[1].completed
    /\ Len(req.body.json.transcript_segments) = 1
    /\ req.body.json.transcript_segments[1].text = RememberMilk
    /\ Len(log) = 1
    /\ log[1].ok = "yes"
    /\ resp.status_code = 200
    /\ resp.content.tasks_created = 1


\* The characters "<" and ">" of a text before position i, and the text that
\* takes the place of one character.
Specials(text, i) == Cardinality({j \in 1..(i - 1) : text[j] \in {"<", ">"}})
Entity(c) ==
    IF c = "<" THEN <<"&", "l", "t", ";">>
    ELSE IF c = ">" THEN <<"&", "g", "t", ";">>
    ELSE <<c>>

\* out is text with every "<" and ">" replaced, cut to cap characters.
IsSanitized(text, cap, out) ==
    /\ \A k \in 1..Len(out) : out[k] \notin {"<", ">"}
    /\ Len(out) = Min(cap, Len(text) + 3 * Specials(text, Len(text) + 1))
    /\ \A i \in 1..Len(text) :
           \A k \in 1..Len(Entity(text[i])) :
               LET at == (i - 1) + 3 * Specials(text, i) + k
               IN  at <= Len(out) => out[at] = Entity(text[i])[k]
    /\ Len(text) > cap => Len(out) = cap
    /\ Len(out) <= cap

\* The text a call of the webhook handler's log was made for.
SourceText(entry) ==
    IF entry.src = "item" THEN SentItems[entry.idx].description
    ELSE SentTranscriptTasks[entry.idx]

\* C14: for every text and every max_length >= 0, what sanitize_text returns
\* holds no "<" and no ">", is the text with each "<" replaced by "&lt;" and
\* each ">" by "&gt;" as far as max_length characters reach ("<script>" gives
\* "&lt;script&gt;"), and has exactly max_length characters when the text is
\* longer than max_length and at most max_length otherwise; the content of
\* every call the webhook handler starts is what sanitize_text returns for the
\* item's description or the transcript task with the default max_length.
C14_ContentIsSanitized ==
    /\ hpc = "sanitize" =>
           /\ IsSanitized(sanitized.text, sanitized.max_length, sanitized.returns)
           /\ (sanitized.text = Script /\ sanitized.max_length >= Len(Script) + 6) =>
                  sanitized.returns = <<"&", "l", "t", ";", "s", "c", "r", "i", "p", "t",
                                        "&", "g", "t", ";">>
    /\ (InWebhook /\ req.body.kind = "payload") =>
           \A i \in 1..Len(log) :
               /\ log[i].content = call.content \/ i < Len(log) \/ cpc = "idle"
               /\ IsSanitized(SourceText(log[i]), DefaultMaxLength, log[i].content)

C14_Witness ==
    /\ hpc = "sanitize"
    /\ sanitized.text = <<"<", "a", ">">>
    /\ sanitized.max_length = 5
    /\ sanitized.returns = <<"&", "l", "t", ";", "a">>


\* What the status endpoints answer.
C15_ProbeState ==
    /\ ENABLED health_check
    /\ ENABLED setup_complete
    /\ probe # Null =>
           /\ probe.status_code = 200
           /\ probe.endpoint = "health" => probe.content = [status |-> "ok"]
           /\ probe.endpoint = "setup-done" => probe.content = [is_setup_completed |-> TRUE]

\* A step that answers a status request changes nothing else.
C15_ProbeStep ==
    (probe' # probe /\ probe' # Null) =>
        /\ probe'.endpoint \in {"health", "setup-done"}
        /\ UNCHANGED <<local_testing, environ_api_key, kv, db>>
        /\ UNCHANGED <<cpc, call, attempt, posts, sleeps, outcome, result>>
        /\ UNCHANGED <<hpc, req, tasks, resp, log>>

\* C15: in every reachable state, with or without a stored key and also while
\* a request is being handled, GET /health can be answered and is answered
\* {"status": "ok"}, and GET /setup-done {"is_setup_completed": true}; the
\* step that answers leaves the environment, the stores, the handlers and the
\* running call as they were, so it makes no POST.
C15_StatusEndpointsStateless == []C15_ProbeState /\ [][C15_ProbeStep]_vars

C15_Witness ==
    /\ probe # Null
    /\ probe.endpoint = "setup-done"
    /\ probe.content.is_setup_completed
    /\ \A u \in Uids : kv[u] = None
    /\ hpc = "setup"
    /\ cpc = "post"


GaveUpRetryable ==
    /\ cpc = "raised"
    /\ attempt = call.retries - 1
    /\ \/ outcome.kind = "ClientError"
       \/ outcome.kind = "response" /\ outcome.status \in RetryableStatuses

\* C17 (as claimed): the error of a call that gave up after a retryable
\* failure has a status code of the 500 class.
C17_GiveUpIs500Class ==
    GaveUpRetryable => result.status_code \in 500..599

\* C17 (amended): the error of a call that gave up after a retryable failure
\* carries the status of the last response, 429, 502 or 503, or 500 after a
\* transport failure; it is of the 500 class unless the last response was 429.
C17_GiveUpCarriesLastStatus ==
    GaveUpRetryable =>
        /\ result.exc = "HTTPException"
        /\ outcome.kind = "ClientError" => result.status_code = 500
        /\ outcome.kind = "response" => result.status_code = outcome.status
        /\ result.status_code \in 500..599 <=> outcome # Response(429)

C17_Witness ==
    /\ cpc = "raised"
    /\ call.retries = 3
    /\ attempt = 2
    /\ posts = 3
    /\ outcome = Response(429)
    /\ result.status_code = 429

\* C18: every POST of a call carries the X-Request-Id of the headers built
\* when the call was entered, so all attempts of one call send the same
\* token, and the calls of one request have tokens that differ from each
\* other.
C18_OneTokenPerCall ==
    /\ Len(sent) = posts
    /\ \A k \in 1..Len(sent) : sent[k] = call.request_id
    /\ cpc # "idle" => call.request_id # 0
    /\ (cpc # "idle" /\ Len(log) > 0) => call.request_id = log[Len(log)].request_id
    /\ \A i, j \in 1..Len(log) : i # j => log[i].request_id # log[j].request_id

C18_Witness ==
    /\ InWebhook
    /\ Len(log) = 2
    /\ log[1].request_id # log[2].request_id
    /\ posts = 3
    /\ Len(sent) = 3
    /\ sent[1] = sent[3]
    /\ sent[1] = log[2].request_id


\* A call with retries >= 1 makes at most retries POSTs and ends with the
\* descriptor of a 200 response or with an error.
C19_CallState ==
    (cpc # "idle" /\ call.retries >= 1) =>
        /\ posts <= call.retries
        /\ attempt <= call.retries - 1
        /\ Len(sleeps) <= call.retries - 1
        /\ cpc = "returned" =>
               /\ outcome = Response(200)
               /\ result # Null
               /\ result = [id |-> "123", content |-> call.content]
        /\ cpc = "raised" => result.exc = "HTTPException"

\* C19: a call of create_todoist_task with retries = N >= 1 makes at most N
\* POSTs whatever the remote answers and whichever attempts fail in
\* transport, and it ends, either returning the descriptor of a 200 response
\* or raising an error; it never leaves its loop to return None.
C19_CallTerminates ==
    /\ []C19_CallState
    /\ (cpc \in {"post", "sleep"} /\ call.retries >= 1) ~> (cpc \in {"returned", "raised"})

C19_Witness ==
    /\ cpc = "returned"
    /\ call.retries = 3
    /\ posts = 3
    /\ sleeps = <<1, 2>>
    /\ outcome = Response(200)
    /\ result.content = BuyMilk

\* The calls of a webhook request as the log keeps them: all but the last are
\* over, the last is the running one, the items come in their order before
\* the transcript tasks in theirs, and the tasks are the descriptors of the
\* calls that returned, in the order of the calls.
C20_SequentialState ==
    InWebhook =>
        /\ \A i \in 1..(Len(log) - 1) : log[i].ok \in {"yes", "no"}
        /\ Len(log) > 0 => (log[Len(log)].ok = "pending" <=> cpc # "idle")
        /\ cpc # "idle" =>
               /\ Len(log) > 0
               /\ call.content = log[Len(log)].content
               /\ call.retries = DefaultRetries
               /\ posts <= DefaultRetries
        /\ hpc = "done" <=> cpc = "idle"
        /\ \A i, j \in 1..Len(log) : i < j =>
               /\ log[i].src = log[j].src => log[i].idx < log[j].idx
               /\ log[i].src = "transcript" => log[j].src = "transcript"
        /\ Len(tasks) = Len(Returned(log))
        /\ \A k \in 1..Len(tasks) :
               tasks[k] = [id |-> "123", content |-> Returned(log)[k].content]
        /\ (hpc = "done" /\ resp.status_code = 200) => resp.content.tasks = tasks

\* A call of a webhook request starts when no other call runs, with its
\* attempt counter at 0; while it runs, no other call is started and no task
\* is added.
C20_SequentialStep ==
    /\ (hpc' \in {"items", "transcript"} /\ Len(log') = Len(log) + 1) =>
           /\ cpc \in {"idle", "returned", "raised"}
           /\ cpc' = "post"
           /\ attempt' = 0
           /\ posts' = 0
           /\ sleeps' = << >>
    /\ (hpc \in {"items", "transcript"} /\ cpc \in {"post", "sleep"}) =>
           /\ log' = log
           /\ tasks' = tasks
           /\ hpc' = hpc
           /\ idx' = idx

\* C20: within one webhook request at most one task-creation call runs at a
\* time; a call starts only when the one before it has returned or raised,
\* with all its retries and sleeps done; each call has its own retry loop,
\* starting at attempt 0 with the default number of retries; the descriptors
\* of the response stand in the order in which their items were processed.
C20_ItemsProcessedSequentially == []C20_SequentialState /\ [][C20_SequentialStep]_vars

C20_Witness ==
    /\ InWebhook
    /\ hpc = "transcript"
    /\ Len(log) = 3
    /\ log[1].ok = "no"
    /\ log[2].ok = "yes"
    /\ log[3].ok = "pending"
    /\ Len(tasks) = 1
    /\ cpc = "sleep"
    /\ attempt = 1
    /\ posts = 2


=============================================================================
